---- MODULE Spec2Model ----
(***************************************************************************)
(* vault-unseal: the orchestrator (lib.rs unseal), the shutdown token      *)
(* (shoutdown.rs) and one UnsealWorker per configured node (worker.rs).    *)
(*                                                                         *)
(* Every network round trip (Bitwarden login, vault status, Bitwarden      *)
(* get_secrets, vault unseal) is an await point: the call is issued in one *)
(* step and its result arrives in a later one, so the signal task and the  *)
(* other workers interleave with it.  What a call returns is chosen by the *)
(* environment.                                                            *)
(***************************************************************************)
EXTENDS Integers, Sequences, FiniteSets, TLC

(* ------------------------------ bounds --------------------------------- *)

\* number of entries of cfg.vault_nodes (TryFrom rejects an empty list)
NumNodes == 2

\* largest number of secrets one get_secrets call returns
MaxShares == 2

\* the call counters saturate here ("MaxCalls or more")
MaxCalls == 2

(* --------------------------- program constants ------------------------- *)

\* ExternalConfig::default(): check_interval: Some(10)
DefaultInterval == 10

Nodes == 1..NumNodes

\* check_interval is a u64 with no validation: 0 is a value the worker can get
IntervalVals == {0, DefaultInterval}

\* thresholds a vault may report; one more than the shares that can be held
MaxThreshold == MaxShares + 1

\* what vaultrs::sys::status returns: a ServerStatus, or Err
\* (UNINITIALIZED stands for every variant the `_` arm of run() takes)
StatusVals == {"OK", "STANDBY", "SEALED", "UNINITIALIZED", "Err"}

\* the secrets the provider holds, in the order get_by_ids returns them;
\* the worker never looks inside a share, so a share is its position
Escrow == [k \in 1..MaxShares |-> k]

\* what get_secrets returns: Err (FetchErr), or the first n secrets, n >= 0
FetchVals == {[ok |-> FALSE, data |-> << >>]}
             \cup {[ok |-> TRUE, data |-> SubSeq(Escrow, 1, n)] : n \in 0..MaxShares}

\* what vaultrs::sys::unseal returns: Err, or UnsealResponse {sealed, t, ..}
\* (progress and the other fields are never read by the worker)
ErrRes == [kind |-> "err", sealed |-> TRUE, threshold |-> 0]
ApplyVals == {ErrRes}
             \cup {[kind |-> "ok", sealed |-> s, threshold |-> t] :
                      s \in BOOLEAN, t \in 1..MaxThreshold}

\* the parts of ExternalConfig that TryFrom looks at, after figment has
\* merged defaults, files, environment and command line: vault_nodes is
\* missing, empty or not; bw_token is missing or not; bw_secret_ids is
\* missing, empty or not.  bw_host is always Some: it has a default.
ExtCfgVals == [nodes : {"None", "Empty", "Some"},
               token : {"None", "Some"},
               ids : {"None", "Empty", "Some"}]

\* the ExternalConfig once try_from has taken it by value
Moved == [nodes |-> "Moved", token |-> "Moved", ids |-> "Moved"]

\* TryFrom<ExternalConfig> for InternalConfig: "Ok", "Err", or the
\* `_ => unreachable!()` arm of the match on (bw_host, bw_token, bw_secret_ids)
TryFrom(c) ==
    IF c.nodes \in {"None", "Empty"} THEN "Err"
    ELSE IF c.token = "Some" /\ c.ids # "None" THEN "Ok"
    ELSE IF c.ids # "None" THEN "Err"
    ELSE IF c.token = "Some" THEN "Err"
    ELSE "Unreachable"

Min(a, b) == IF a < b THEN a ELSE b

Bump(n) == Min(n + 1, MaxCalls)

(* ------------------------------- state --------------------------------- *)

VARIABLES
    extCfg,         \* the ExternalConfig that init_cfg extracted
    check_interval, \* cfg.check_interval
    buildOk,        \* per node: does UnsealWorker::new succeed for its host
    orch,           \* where main and lib.rs unseal() are
    built,          \* number of handles pushed so far
    exitCode,       \* how main ended: "running", "exit0", "exit1", "panic"
                    \* (a panic ends the process with code 101)
    sigTask,        \* the task Shutdown::new spawns: "none", "listening", "done"
    cancelled,      \* the CancellationToken
    pc,             \* per worker: where run() is
    tickReady,      \* per worker: interval.tick() would complete now
    status,         \* per worker: what this cycle's status call returned
    keys,           \* per worker: the keys this cycle's attempt fetched
    sent,           \* per worker: the shares this cycle's attempt submitted
    outcome,        \* per worker: how this cycle's attempt ended
    polled,         \* per worker: it has issued a network call
    fetchCalls,     \* get_secrets calls issued so far (saturating)
    attempts        \* UnsealWorker::unseal calls so far (saturating)

orchVars == <<extCfg, check_interval, buildOk, orch, built, exitCode>>
sigVars == <<sigTask, cancelled>>
cycleVars == <<status, keys, sent, outcome>>
countVars == <<fetchCalls, attempts>>
vars == <<extCfg, check_interval, buildOk, orch, built, exitCode, sigTask, cancelled,
          pc, tickReady, status, keys, sent, outcome, polled,
          fetchCalls, attempts>>

Init ==
    /\ extCfg \in ExtCfgVals
    /\ check_interval \in IntervalVals
    /\ buildOk \in [Nodes -> BOOLEAN]
    /\ orch = "config"
    /\ built = 0
    /\ exitCode = "running"
    /\ sigTask = "none"
    /\ cancelled = FALSE
    /\ pc = [w \in Nodes |-> "none"]
    /\ tickReady = [w \in Nodes |-> FALSE]
    /\ status = [w \in Nodes |-> "none"]
    /\ keys = [w \in Nodes |-> << >>]
    /\ sent = [w \in Nodes |-> << >>]
    /\ outcome = [w \in Nodes |-> "none"]
    /\ polled = [w \in Nodes |-> FALSE]
    /\ fetchCalls = 0
    /\ attempts = 0

(* ---------------------------- orchestrator ----------------------------- *)

\* init_cfg: the extracted ExternalConfig is converted; main prints an Err
\* and calls exit(1); the unreachable!() arm panics; on Ok main goes on to
\* vault_unseal::unseal(cfg)
InitCfg ==
    /\ orch = "config"
    /\ exitCode = "running"
    /\ LET r == TryFrom(extCfg)
       IN /\ orch' = CASE r = "Ok" -> "login"
                      [] r = "Err" -> "error"
                      [] OTHER -> "unreachable"
          /\ exitCode' = CASE r = "Ok" -> "running"
                          [] r = "Err" -> "exit1"
                          [] OTHER -> "panic"
    /\ extCfg' = Moved
    /\ UNCHANGED <<check_interval, buildOk, built, pc, tickReady, polled>>
    /\ UNCHANGED sigVars
    /\ UNCHANGED cycleVars
    /\ UNCHANGED countVars

\* BitwardenSecret::new: login only, no secret is fetched here.
\* On success Shutdown::new() spawns the signal task.
Login(ok) ==
    /\ orch = "login"
    /\ exitCode = "running"
    /\ IF ok
       THEN /\ orch' = "construct"
            /\ sigTask' = "listening"
            /\ UNCHANGED exitCode
       ELSE /\ orch' = "error"
            /\ exitCode' = "exit1"
            /\ UNCHANGED sigTask
    /\ UNCHANGED <<extCfg, check_interval, buildOk, built, cancelled, pc,
                   tickReady, polled>>
    /\ UNCHANGED cycleVars
    /\ UNCHANGED countVars

\* one iteration of `for node in cfg.vault_nodes`: UnsealWorker::new, then
\* the handle (a future that has not been polled yet) is pushed
Construct ==
    /\ orch = "construct"
    /\ exitCode = "running"
    /\ built < NumNodes
    /\ IF buildOk[built + 1]
       THEN /\ pc' = [pc EXCEPT ![built + 1] = "new"]
            /\ built' = built + 1
            /\ UNCHANGED <<orch, exitCode>>
       ELSE /\ orch' = "error"
            /\ exitCode' = "exit1"
            /\ UNCHANGED <<pc, built>>
    /\ UNCHANGED <<extCfg, check_interval, buildOk, tickReady, polled>>
    /\ UNCHANGED sigVars
    /\ UNCHANGED cycleVars
    /\ UNCHANGED countVars

\* future::join_all(handles) is awaited: from here on the workers are polled
JoinAll ==
    /\ orch = "construct"
    /\ exitCode = "running"
    /\ built = NumNodes
    /\ orch' = "joining"
    /\ UNCHANGED <<extCfg, check_interval, buildOk, built, exitCode, pc,
                   tickReady, polled>>
    /\ UNCHANGED sigVars
    /\ UNCHANGED cycleVars
    /\ UNCHANGED countVars

\* a variant of join_all that completes with the first worker
AnyWorkerDone == \E w \in Nodes : pc[w] = "done"

\* join_all completes when every handle has completed
AllWorkersDone == \A w \in Nodes : pc[w] = "done"

\* join_all returns, unseal() returns Ok(()), main returns
JoinReturn ==
    /\ orch = "joining"
    /\ exitCode = "running"
    /\ AllWorkersDone
    /\ orch' = "returned"
    /\ exitCode' = "exit0"
    /\ UNCHANGED <<extCfg, check_interval, buildOk, built, pc, tickReady,
                   polled>>
    /\ UNCHANGED sigVars
    /\ UNCHANGED cycleVars
    /\ UNCHANGED countVars

(* ----------------------------- shutdown -------------------------------- *)

\* shutdown_signal() completes on ctrl-c or SIGTERM, then token.cancel()
Signal ==
    /\ sigTask = "listening"
    /\ exitCode = "running"
    /\ cancelled' = TRUE
    /\ sigTask' = "done"
    /\ UNCHANGED orchVars
    /\ UNCHANGED <<pc, tickReady, polled>>
    /\ UNCHANGED cycleVars
    /\ UNCHANGED countVars

\* a further ctrl-c or SIGTERM: the signal task has ended, nothing waits for
\* the signal and the token stays as it is
SignalAgain ==
    /\ sigTask = "done"
    /\ exitCode = "running"
    /\ UNCHANGED vars

(* ------------------------------ worker --------------------------------- *)

\* handles that run from the moment they are built (a spawned task each)
HandlesSpawned == orch \in {"construct", "joining"}

\* `async move { worker.run().await }` is a lazy future: a worker runs only
\* while join_all polls it
HandlesPolled == orch = "joining"

\* handles awaited one after the other
JoinPollsInOrder(w) == \A v \in 1..(w - 1) : pc[v] = "done"

\* join_all polls every handle that has not completed, whatever the others do
JoinPolls(w) == TRUE

\* the addresses of cfg.vault_nodes: a Vec that neither try_from nor unseal()
\* looks into for repeats, each entry gets a worker and a client of its own.
\* Here the last entry names the address of the first one again.
HostOf == [w \in Nodes |-> IF w = NumNodes THEN 1 ELSE w]

\* run() is polled for the first time: tokio::time::interval(from_secs(n))
\* panics when n = 0 (the panic unwinds through join_all and main);
\* otherwise the first tick of the interval completes immediately
Start(w) ==
    /\ HandlesPolled
    /\ JoinPolls(w)
    /\ exitCode = "running"
    /\ pc[w] = "new"
    /\ IF check_interval = 0
       THEN /\ pc' = [pc EXCEPT ![w] = "panicked"]
            /\ orch' = "panicked"
            /\ exitCode' = "panic"
            /\ UNCHANGED tickReady
       ELSE /\ pc' = [pc EXCEPT ![w] = "select"]
            /\ tickReady' = [tickReady EXCEPT ![w] = TRUE]
            /\ UNCHANGED <<orch, exitCode>>
    /\ UNCHANGED <<extCfg, check_interval, buildOk, built, polled>>
    /\ UNCHANGED sigVars
    /\ UNCHANGED cycleVars
    /\ UNCHANGED countVars

\* the period of the interval elapses.  The worker looks at its timer only
\* in select!, so a period that elapses during a cycle is seen there.
TimerFire(w) ==
    /\ HandlesPolled
    /\ JoinPolls(w)
    /\ exitCode = "running"
    /\ pc[w] = "select"
    /\ ~tickReady[w]
    /\ tickReady' = [tickReady EXCEPT ![w] = TRUE]
    /\ UNCHANGED orchVars
    /\ UNCHANGED <<pc, polled>>
    /\ UNCHANGED sigVars
    /\ UNCHANGED cycleVars
    /\ UNCHANGED countVars

\* select! with the cancellation branch checked first (`biased;`)
TickBranchBiased(w) == tickReady[w] /\ ~cancelled

\* select! polls its branches starting from a random one: the tick branch
\* can be taken whenever the tick is ready, cancelled or not
TickBranch(w) == tickReady[w]

\* a wait on a token of the worker's own, which the signal task never cancels
WaitForShutdownOwnToken(w) == FALSE

\* wait_for_shutdown: token.cancelled() is ready from the moment the shared
\* token is cancelled, also for a wait that starts after that moment
WaitForShutdown(w) == cancelled

\* a loop whose whole body is raced against the token
AtAnyAwait(w) == pc[w] \in {"select", "status", "fetch", "apply"}

\* the token is awaited in the select! at the top of the loop only: the
\* body of the tick arm runs to its end
AtLoopBoundary(w) == pc[w] = "select"

\* select! takes the wait_for_shutdown branch: break, run() returns and the
\* worker, with what it held of its last cycle, is dropped
Exit(w) ==
    /\ HandlesPolled
    /\ JoinPolls(w)
    /\ exitCode = "running"
    /\ AtLoopBoundary(w)
    /\ WaitForShutdown(w)
    /\ pc' = [pc EXCEPT ![w] = "done"]
    /\ tickReady' = [tickReady EXCEPT ![w] = FALSE]
    /\ status' = [status EXCEPT ![w] = "none"]
    /\ keys' = [keys EXCEPT ![w] = << >>]
    /\ sent' = [sent EXCEPT ![w] = << >>]
    /\ outcome' = [outcome EXCEPT ![w] = "none"]
    /\ UNCHANGED orchVars
    /\ UNCHANGED polled
    /\ UNCHANGED sigVars
    /\ UNCHANGED countVars

\* select! takes the interval.tick() branch: a poll cycle begins with
\* vaultrs::sys::status
Tick(w) ==
    /\ HandlesPolled
    /\ JoinPolls(w)
    /\ exitCode = "running"
    /\ pc[w] = "select"
    /\ TickBranch(w)
    /\ pc' = [pc EXCEPT ![w] = "status"]
    /\ tickReady' = [tickReady EXCEPT ![w] = FALSE]
    /\ polled' = [polled EXCEPT ![w] = TRUE]
    /\ status' = [status EXCEPT ![w] = "none"]
    /\ keys' = [keys EXCEPT ![w] = << >>]
    /\ sent' = [sent EXCEPT ![w] = << >>]
    /\ outcome' = [outcome EXCEPT ![w] = "none"]
    /\ UNCHANGED orchVars
    /\ UNCHANGED sigVars
    /\ UNCHANGED countVars

\* a loop that gives up (`break`) after an attempt that failed
AfterCycleBreakOnError(o) == IF o \in {"none", "Ok"} THEN "select" ELSE "done"

\* a loop that gives up (`break`) when no key could be fetched
AfterCycleBreakOnNoKeys(o) ==
    IF o \in {"NoKeys", "FetchError"} THEN "done" ELSE "select"

\* every arm of the loop body ends in `continue` or falls off its end,
\* whatever the cycle's result o: the worker is at the select! again
AfterCycle(o) == "select"

\* a match that lets every status but STANDBY, OK and Err fall through
ProceedsUnlessUp(s) == s \notin {"STANDBY", "OK", "Err"}

\* the match on the status: only SEALED falls through to self.unseal()
ProceedsToUnseal(s) == s = "SEALED"

\* get_keys that keeps the first result and fetches no more
GetKeysCached(n) == IF n = 0 THEN 1 ELSE n

\* get_keys calls bitwarden_client.get_secrets() every time
GetKeys(n) == Bump(n)

\* the status call returns; on SEALED unseal() starts with get_keys
StatusReturn(w, s) ==
    /\ HandlesPolled
    /\ JoinPolls(w)
    /\ exitCode = "running"
    /\ pc[w] = "status"
    /\ status' = [status EXCEPT ![w] = s]
    /\ IF ProceedsToUnseal(s)
       THEN /\ pc' = [pc EXCEPT ![w] = "fetch"]
            /\ attempts' = Bump(attempts)
            /\ fetchCalls' = GetKeys(fetchCalls)
       ELSE /\ pc' = [pc EXCEPT ![w] = AfterCycle("none")]
            /\ UNCHANGED countVars
    /\ UNCHANGED orchVars
    /\ UNCHANGED <<tickReady, polled, keys, sent, outcome>>
    /\ UNCHANGED sigVars

\* keys handed out from the back of the list
NextKeyFromBack(ks, k) == ks[Len(ks) - k]

\* the key of submission k+1: the loop walks keys.iter().take(len - 1) in
\* order, then last_key = keys.last() is submitted
NextKey(ks, k) == IF k + 1 < Len(ks) THEN ks[k + 1] ELSE ks[Len(ks)]

\* get_secrets returns: Err and an empty list end the attempt, otherwise
\* the first key is submitted (the loop's first key, or last_key when N = 1)
FetchReturn(w, r) ==
    /\ HandlesPolled
    /\ JoinPolls(w)
    /\ exitCode = "running"
    /\ pc[w] = "fetch"
    /\ IF ~r.ok
       THEN /\ outcome' = [outcome EXCEPT ![w] = "FetchError"]
            /\ pc' = [pc EXCEPT ![w] = AfterCycle("FetchError")]
            /\ UNCHANGED <<keys, sent>>
       ELSE IF r.data = << >>
       THEN /\ outcome' = [outcome EXCEPT ![w] = "NoKeys"]
            /\ pc' = [pc EXCEPT ![w] = AfterCycle("NoKeys")]
            /\ UNCHANGED <<keys, sent>>
       ELSE /\ keys' = [keys EXCEPT ![w] = r.data]
            /\ sent' = [sent EXCEPT ![w] = <<NextKey(r.data, 0)>>]
            /\ pc' = [pc EXCEPT ![w] = "apply"]
            /\ UNCHANGED outcome
    /\ UNCHANGED orchVars
    /\ UNCHANGED <<tickReady, polled, status>>
    /\ UNCHANGED sigVars
    /\ UNCHANGED countVars

\* unseal() without the `if !res.sealed { return Ok(()) }` of the loop
AfterApplyNoEarlyExit(n, k, res) ==
    IF res.kind = "err" THEN "ClientError"
    ELSE IF k < n
    THEN IF res.threshold > n THEN "InsufficientShares" ELSE "continue"
    ELSE IF res.sealed THEN "FailedToUnseal" ELSE "Ok"

\* unseal() without the `if res.threshold > keys.len()` of the loop
AfterApplyNoThreshold(n, k, res) ==
    IF res.kind = "err" THEN "ClientError"
    ELSE IF k < n
    THEN IF ~res.sealed THEN "Ok" ELSE "continue"
    ELSE IF res.sealed THEN "FailedToUnseal" ELSE "Ok"

\* unseal() without the `if res.sealed` after the last key
AfterApplyLastOk(n, k, res) ==
    IF res.kind = "err" THEN "ClientError"
    ELSE IF k < n
    THEN IF res.threshold > n THEN "InsufficientShares"
         ELSE IF ~res.sealed THEN "Ok"
         ELSE "continue"
    ELSE "Ok"

\* unseal() that logs a failed submission in the loop and goes on
AfterApplySkipError(n, k, res) ==
    IF k < n
    THEN IF res.kind = "err" THEN "continue"
         ELSE IF res.threshold > n THEN "InsufficientShares"
         ELSE IF ~res.sealed THEN "Ok"
         ELSE "continue"
    ELSE IF res.kind = "err" THEN "ClientError"
    ELSE IF res.sealed THEN "FailedToUnseal" ELSE "Ok"

\* what unseal() does with the response to its k-th submission, n keys held:
\* in the loop over the first n-1 keys the threshold is checked, then sealed;
\* after the last key only sealed is checked
AfterApply(n, k, res) ==
    IF res.kind = "err" THEN "ClientError"
    ELSE IF k < n
    THEN IF res.threshold > n THEN "InsufficientShares"
         ELSE IF ~res.sealed THEN "Ok"
         ELSE "continue"
    ELSE IF res.sealed THEN "FailedToUnseal" ELSE "Ok"

\* vaultrs::sys::unseal returns: the next key is submitted, or unseal()
\* returns and run() logs the result and loops
ApplyReturn(w, res) ==
    /\ HandlesPolled
    /\ JoinPolls(w)
    /\ exitCode = "running"
    /\ pc[w] = "apply"
    /\ LET d == AfterApply(Len(keys[w]), Len(sent[w]), res)
       IN IF d = "continue"
          THEN /\ sent' = [sent EXCEPT ![w] = Append(@, NextKey(keys[w], Len(@)))]
               /\ UNCHANGED <<pc, outcome, keys>>
          ELSE /\ outcome' = [outcome EXCEPT ![w] = d]
               /\ pc' = [pc EXCEPT ![w] = AfterCycle(d)]
               /\ UNCHANGED <<keys, sent>>
    /\ UNCHANGED orchVars
    /\ UNCHANGED <<tickReady, polled, status>>
    /\ UNCHANGED sigVars
    /\ UNCHANGED countVars

(* ---------------------------- specification ---------------------------- *)

Next ==
    \/ InitCfg
    \/ \E ok \in BOOLEAN : Login(ok)
    \/ Construct
    \/ JoinAll
    \/ JoinReturn
    \/ Signal
    \/ SignalAgain
    \/ \E w \in Nodes : Start(w)
    \/ \E w \in Nodes : TimerFire(w)
    \/ \E w \in Nodes : Exit(w)
    \/ \E w \in Nodes : Tick(w)
    \/ \E w \in Nodes, s \in StatusVals : StatusReturn(w, s)
    \/ \E w \in Nodes, r \in FetchVals : FetchReturn(w, r)
    \/ \E w \in Nodes, res \in ApplyVals : ApplyReturn(w, res)

Spec == Init /\ [][Next]_vars

\* Fairness for the liveness claims: a network call in flight returns (the
\* claims' own premise), join_all is woken when its last handle completes,
\* and a worker that is at its select! again and again with the token
\* cancelled takes the cancellation branch at some point (select! picks the
\* branch it polls first at random, so it cannot prefer the tick for ever).
Fairness ==
    /\ \A w \in Nodes : WF_vars(\E s \in StatusVals : StatusReturn(w, s))
    /\ \A w \in Nodes : WF_vars(\E r \in FetchVals : FetchReturn(w, r))
    /\ \A w \in Nodes : WF_vars(\E res \in ApplyVals : ApplyReturn(w, res))
    /\ \A w \in Nodes : SF_vars(Exit(w))
    /\ WF_vars(JoinReturn)

FairSpec == Spec /\ Fairness

(* ------------------------------- claims -------------------------------- *)

\* C1: in every poll cycle of every worker a share is fetched for or
\* submitted to the node only if the status call of that same cycle returned
\* SEALED; a cycle whose status call returned STANDBY, OK, another status or
\* an error submits nothing and is back at the select! (or has left the loop
\* from there).
C1_UnsealOnlyWhenSealed ==
    \A w \in Nodes :
        /\ pc[w] \in {"fetch", "apply"} => status[w] = "SEALED"
        /\ sent[w] # << >> => status[w] = "SEALED"
        /\ status[w] \in StatusVals \ {"SEALED"} =>
              /\ pc[w] = "select"
              /\ sent[w] = << >>
              /\ keys[w] = << >>
              /\ outcome[w] = "none"

\* C1 witness: one worker is back at the select! after a status error while
\* another one, whose node reported SEALED, has a share in flight.
C1_Witness ==
    \E w, v \in Nodes :
        /\ status[w] = "Err" /\ pc[w] = "select"
        /\ status[v] = "SEALED" /\ pc[v] = "apply"

\* C2: no step leaves an attempt with more submissions than it holds keys,
\* and when a response with threshold <= N says sealed = false the attempt
\* ends there with success: nothing more is submitted in that cycle.
C2_StopsAtFirstUnsealed ==
    [][\A w \in Nodes :
          /\ Len(sent'[w]) <= Len(keys'[w])
          /\ \A res \in ApplyVals :
                (/\ pc[w] = "apply"
                 /\ res.kind = "ok"
                 /\ res.threshold <= Len(keys[w])
                 /\ ~res.sealed
                 /\ ApplyReturn(w, res))
                => /\ pc'[w] = "select"
                   /\ outcome'[w] = "Ok"
                   /\ sent'[w] = sent[w]]_vars

\* C2 witness: an attempt has ended with success while keys it holds were
\* never submitted.
C2_Witness ==
    \E w \in Nodes :
        /\ outcome[w] = "Ok"
        /\ pc[w] = "select"
        /\ Len(sent[w]) < Len(keys[w])

\* C3, as claimed: whenever a response reports a threshold above N - after
\* any submission, the last one included - the attempt ends there with
\* InsufficientShares.
C3_Original ==
    [][\A w \in Nodes, res \in ApplyVals :
          (/\ pc[w] = "apply"
           /\ res.kind = "ok"
           /\ res.threshold > Len(keys[w])
           /\ ApplyReturn(w, res))
          => /\ pc'[w] = "select"
             /\ outcome'[w] = "InsufficientShares"]_vars

\* C3, amended: a response to one of the first N-1 submissions that reports
\* a threshold above N ends the attempt there with InsufficientShares and
\* nothing more is submitted; the response to the last of the N keys (the
\* only one when N = 1) is not checked for its threshold: the attempt ends
\* there too, with FailedToUnseal when sealed and with success when not.
C3_InsufficientBeforeLast ==
    [][\A w \in Nodes, res \in ApplyVals :
          (/\ pc[w] = "apply"
           /\ res.kind = "ok"
           /\ res.threshold > Len(keys[w])
           /\ ApplyReturn(w, res))
          => /\ pc'[w] = "select"
             /\ sent'[w] = sent[w]
             /\ outcome'[w] =
                   IF Len(sent[w]) < Len(keys[w]) THEN "InsufficientShares"
                   ELSE IF res.sealed THEN "FailedToUnseal"
                   ELSE "Ok"]_vars

\* C3 witness: an attempt has ended with InsufficientShares before its last
\* key was submitted.
C3_Witness ==
    \E w \in Nodes :
        /\ outcome[w] = "InsufficientShares"
        /\ pc[w] = "select"
        /\ Len(sent[w]) < Len(keys[w])

\* C4, as claimed: a worker that has issued no network call when the token
\* is cancelled never issues one.
C4_NoCallAfterEarlyCancel ==
    [][\A w \in Nodes : (cancelled /\ ~polled[w]) => ~polled'[w]]_vars

ConstructionFailed == orch = "error" /\ sigTask # "none"

NoWorkerRan ==
    /\ \A w \in Nodes : pc[w] \in {"none", "new"} /\ ~polled[w]
    /\ fetchCalls = 0
    /\ attempts = 0

\* C6: when UnsealWorker::new fails for a node, unseal() returns the error
\* of the first node that fails (exit code 1) and no worker has run, the
\* ones built before the failing node included; a configuration with a node
\* that cannot be built never gets to run a worker.
C6_NoPartialFleet ==
    /\ ConstructionFailed =>
          /\ exitCode = "exit1"
          /\ built < NumNodes
          /\ ~buildOk[built + 1]
          /\ \A k \in 1..built : buildOk[k]
          /\ NoWorkerRan
    /\ (\E n \in Nodes : ~buildOk[n]) =>
          /\ NoWorkerRan
          /\ orch \notin {"joining", "returned"}

\* C6 witness: construction has failed after an earlier node was built.
C6_Witness == ConstructionFailed /\ built > 0 /\ pc[1] = "new"

\* C7: unseal() has returned Ok (exit code 0) only if the token is cancelled
\* and every worker has left its loop.
C7_ReturnsAfterAllExited ==
    (orch = "returned" \/ exitCode = "exit0") =>
        /\ cancelled
        /\ \A w \in Nodes : pc[w] = "done"

\* C7 witness: unseal() has returned after a worker had polled its node.
C7_Witness == orch = "returned" /\ \E w \in Nodes : polled[w]

\* C8, as claimed: once the token is cancelled no worker takes the tick
\* branch of its select!.
C8_NoNewCycleAfterCancel ==
    [][\A w \in Nodes :
          cancelled => ~(pc[w] = "select" /\ pc'[w] = "status")]_vars

\* the worker is in its loop: waiting for a tick, polling or unsealing
InLoop(w) == pc[w] \in {"select", "status", "fetch", "apply"}

\* C9: once the token is cancelled, every worker that is in its loop leaves
\* it, and when all workers are in their loops (or have left them) unseal()
\* returns.
C9_ShutdownCompletes ==
    /\ \A w \in Nodes : (cancelled /\ InLoop(w)) ~> (pc[w] = "done")
    /\ (cancelled /\ \A w \in Nodes : InLoop(w) \/ pc[w] = "done")
           ~> (orch = "returned")

\* C9 witness: the token is cancelled while one worker waits for a tick,
\* another has a share in flight.
C9_Witness ==
    /\ cancelled
    /\ \E w, v \in Nodes : pc[w] = "select" /\ pc[v] = "apply"

\* C10: whatever a cycle's result - a status, a status error, any outcome of
\* an attempt - the worker is at its select! again; it leaves its loop only
\* from the select!, with the token cancelled; and every attempt starts
\* from nothing: a new fetch, then the first key.
C10_FailureNotFatal ==
    [][\A w \in Nodes :
          /\ (status'[w] # status[w] /\ status'[w] \notin {"none", "SEALED"})
                => pc'[w] = "select"
          /\ (outcome'[w] # outcome[w] /\ outcome'[w] # "none")
                => pc'[w] = "select"
          /\ (pc'[w] \in {"done", "panicked"} /\ InLoop(w))
                => (pc[w] = "select" /\ pc'[w] = "done" /\ cancelled)
          /\ (pc'[w] = "fetch" /\ pc[w] # "fetch")
                => (keys'[w] = << >> /\ sent'[w] = << >>)
          /\ (pc'[w] = "apply" /\ pc[w] = "fetch")
                => sent'[w] = <<keys'[w][1]>>]_vars

\* C10 witness: after an attempt that failed, with no shutdown, the worker is
\* at its select! with the next tick ready.
C10_Witness ==
    \E w \in Nodes :
        /\ outcome[w] = "FailedToUnseal"
        /\ pc[w] = "select"
        /\ tickReady[w]
        /\ ~cancelled

\* main has stopped before any worker was built or run: a configuration
\* that try_from does not accept, a failed login, a failed UnsealWorker::new
StartupFailed == orch \in {"error", "unreachable"}

\* C11, as claimed: every startup or configuration error - a missing or
\* empty node list, a missing token, missing secret ids, both missing, a
\* failed login, a failed worker construction - ends the process with exit
\* code 1 and no worker has run; none ends it in another way.
C11_StartupErrorsExit1 ==
    StartupFailed => (exitCode = "exit1" /\ NoWorkerRan)

\* C12, as claimed: the conversion accepts a configuration only if its node
\* list is non-empty and its list of secret ids is non-empty: with no node,
\* or with an empty list of secret ids (token or not), it is rejected as a
\* startup error.
C12_EmptyIdsRejected ==
    [][(/\ orch = "config"
        /\ orch' # "config"
        /\ (extCfg.nodes \in {"None", "Empty"} \/ extCfg.ids = "Empty"))
       => (orch' = "error" /\ exitCode' = "exit1")]_vars


\* C13: within one attempt the keys submitted are a prefix of the list that
\* get_secrets returned. The attempt starts with the first key of the list;
\* a further key is submitted only when the response to the one before has
\* been received, it is the next one of the list, and nothing else changes
\* what has been submitted but the start of a new cycle; never more than N
\* keys are submitted.
C13_SharesInOrder ==
    [][\A w \in Nodes :
          LET k == Len(sent[w])
              n == Len(keys'[w])
          IN  /\ Len(sent'[w]) <= n
              /\ \/ sent'[w] = sent[w]
                 \/ sent'[w] = << >>
                 \/ /\ k < n
                    /\ pc[w] \in {"fetch", "apply"}
                    /\ pc'[w] = "apply"
                    /\ pc[w] = "apply" => keys'[w] = keys[w]
                    /\ sent'[w] = Append(sent[w], keys'[w][k + 1])
              /\ (pc[w] = "fetch" /\ pc'[w] = "apply")
                    => sent'[w] = <<keys'[w][1]>>]_vars

\* C13 witness: every key of a list of more than one has been submitted and
\* the response to the last one is awaited.
C13_Witness ==
    \E w \in Nodes :
        /\ pc[w] = "apply"
        /\ Len(keys[w]) > 1
        /\ sent[w] = keys[w]

\* C14: a response that says sealed, with a threshold that the keys held
\* reach, is followed by the next key until the last one has been submitted;
\* the response to the last key ends the attempt, with "failed to unseal"
\* when it says sealed and with success when it does not, after exactly N
\* submissions (one submission for N = 1); "failed to unseal" is the end of
\* no attempt that has keys left.
C14_LastKeyDecides ==
    [][\A w \in Nodes : \A res \in ApplyVals :
          (pc[w] = "apply" /\ res.kind = "ok" /\ ApplyReturn(w, res))
          => LET k == Len(sent[w])
                 n == Len(keys[w])
             IN  /\ (k < n /\ res.sealed /\ res.threshold <= n)
                       => (pc'[w] = "apply" /\ Len(sent'[w]) = k + 1)
                 /\ k = n
                       => /\ pc'[w] = "select"
                          /\ sent'[w] = sent[w]
                          /\ outcome'[w] =
                                IF res.sealed THEN "FailedToUnseal" ELSE "Ok"
                 /\ outcome'[w] = "FailedToUnseal" => k = n]_vars

\* C14 witness: an attempt with more than one key has submitted them all and
\* has failed because the node still said sealed.
C14_Witness ==
    \E w \in Nodes :
        /\ outcome[w] = "FailedToUnseal"
        /\ Len(keys[w]) > 1
        /\ Len(sent[w]) = Len(keys[w])


\* C15: cancellation does not cut a cycle short. The step that cancels the
\* token changes no worker's position or attempt; with the token cancelled, a
\* worker whose call is in flight goes on as it would without it (SEALED is
\* followed by the fetch, keys by the first submission, a response that
\* says sealed and a reachable threshold by the next key); an attempt ends
\* only with an outcome of its own; and a worker returns from run() only
\* from the select! at the top of the loop, with the token cancelled.
C15_AttemptNotInterrupted ==
    [][/\ cancelled' # cancelled => UNCHANGED <<pc, cycleVars>>
       /\ \A w \in Nodes :
             /\ (pc[w] \in {"fetch", "apply"} /\ pc'[w] # pc[w])
                   => \/ pc'[w] = "apply"
                      \/ (pc'[w] = "select" /\ outcome'[w] # "none")
             /\ (pc[w] # "done" /\ pc'[w] = "done")
                   => (pc[w] = "select" /\ cancelled)
       /\ cancelled
             => \A w \in Nodes :
                   /\ (pc[w] = "status" /\ StatusReturn(w, "SEALED"))
                         => pc'[w] = "fetch"
                   /\ pc[w] = "fetch"
                         => \A r \in FetchVals :
                               (FetchReturn(w, r) /\ r.ok /\ r.data # << >>)
                               => (pc'[w] = "apply" /\ Len(sent'[w]) = 1)
                   /\ (pc[w] = "apply" /\ Len(sent[w]) < Len(keys[w]))
                         => \A res \in ApplyVals :
                               (/\ res.kind = "ok" /\ res.sealed
                                /\ res.threshold <= Len(keys[w])
                                /\ ApplyReturn(w, res))
                               => /\ pc'[w] = "apply"
                                  /\ Len(sent'[w]) = Len(sent[w]) + 1]_vars

\* C15 witness: the token is cancelled and a worker is in the middle of an
\* attempt, past its first submission.
C15_Witness ==
    /\ cancelled
    /\ sigTask = "done"
    /\ \E w \in Nodes : pc[w] = "apply" /\ Len(sent[w]) > 1


\* a vaultrs::sys::unseal call of worker w is in flight
Applying(w) == pc[w] = "apply"

\* C16, as claimed: no two unseal calls are in flight for the same address
\* at the same time, whatever the node list is; it fails for a list that
\* names an address twice, where two workers, each with a client of its own,
\* run their attempts on that address side by side.
C16_OneAttemptPerNode ==
    \A w \in Nodes : \A v \in Nodes :
        (w # v /\ HostOf[w] = HostOf[v]) => ~(Applying(w) /\ Applying(v))


\* C17: a failed call is not repeated in its cycle. A status call that
\* fails takes the worker back to the select! with no key fetched and none
\* submitted; a submission that fails ends the attempt there with the client
\* error as its outcome and the keys not yet submitted stay unsubmitted; from
\* the select! the next call of a worker is a status call, made on a tick,
\* and keys are fetched and submitted only after that call has said SEALED.
C17_NoRetryInCycle ==
    [][\A w \in Nodes :
          /\ StatusReturn(w, "Err")
                => /\ pc'[w] = "select"
                   /\ sent'[w] = << >>
                   /\ UNCHANGED countVars
          /\ ApplyReturn(w, ErrRes)
                => /\ pc'[w] = "select"
                   /\ outcome'[w] = "ClientError"
                   /\ sent'[w] = sent[w]
          /\ (pc[w] = "select" /\ pc'[w] # "select")
                => \/ pc'[w] = "done"
                   \/ (pc'[w] = "status" /\ tickReady[w])
          /\ (pc[w] # "fetch" /\ pc'[w] = "fetch")
                => (pc[w] = "status" /\ status'[w] = "SEALED")
          /\ Len(sent'[w]) > Len(sent[w])
                => (pc[w] \in {"fetch", "apply"} /\ status[w] = "SEALED")]_vars

\* C17 witness: a submission has failed and the attempt has ended with keys
\* left unsubmitted.
C17_Witness ==
    \E w \in Nodes :
        /\ pc[w] = "select"
        /\ outcome[w] = "ClientError"
        /\ 0 < Len(sent[w])
        /\ Len(sent[w]) < Len(keys[w])


\* all that run() of worker w holds
WorkerState(w) ==
    <<pc[w], tickReady[w], status[w], keys[w], sent[w], outcome[w], polled[w]>>

\* C18: the workers are isolated from each other. A step that changes one
\* worker's state changes no other worker's; the return of a worker's call,
\* whatever it returns, touches neither the orchestrator nor the token; and
\* while the workers are being joined and the token is not cancelled, every
\* worker can take its next step whatever the others are doing: start, wait
\* for and take its tick, get the answer of its call, up to an attempt that
\* ends with the node unsealed.
C18_WorkersIsolated ==
    [][/\ \A w \in Nodes :
             WorkerState(w)' # WorkerState(w)
             => \A v \in Nodes \ {w} : WorkerState(v)' = WorkerState(v)
       /\ \A w \in Nodes :
             (pc[w] \in {"status", "fetch", "apply"}
                /\ WorkerState(w)' # WorkerState(w))
             => UNCHANGED <<orchVars, sigVars>>
       /\ (orch = "joining" /\ exitCode = "running" /\ ~cancelled)
             => \A w \in Nodes :
                   /\ pc[w] = "new" => ENABLED Start(w)
                   /\ (pc[w] = "select" /\ ~tickReady[w])
                         => ENABLED TimerFire(w)
                   /\ (pc[w] = "select" /\ tickReady[w]) => ENABLED Tick(w)
                   /\ pc[w] = "status" => ENABLED StatusReturn(w, "SEALED")
                   /\ pc[w] = "fetch"
                         => ENABLED FetchReturn(w, [ok |-> TRUE, data |-> Escrow])
                   /\ pc[w] = "apply"
                         => ENABLED (/\ ApplyReturn(w, [kind |-> "ok",
                                                      sealed |-> FALSE,
                                                      threshold |-> 1])
                                     /\ outcome'[w] = "Ok")]_vars

\* C18 witness: one worker's attempt has failed with the node still sealed,
\* another worker's attempt has unsealed its node, and no shutdown has been
\* triggered.
C18_Witness ==
    /\ ~cancelled
    /\ orch = "joining"
    /\ \E w \in Nodes : \E v \in Nodes :
          /\ w # v
          /\ outcome[w] = "FailedToUnseal"
          /\ outcome[v] = "Ok"


\* C19: the token is cancelled once and stays cancelled. It is cancelled by
\* the signal task only, which ends with it, so that a later signal finds
\* nothing to change; and whenever the token is cancelled, each worker at
\* its select!, whether it was waiting there when the signal came or got
\* there afterwards, can take the cancellation branch at once.
C19_CancelOnceForAll ==
    [][/\ cancelled => cancelled'
       /\ cancelled' # cancelled => (sigTask = "listening" /\ sigTask' = "done")
       /\ sigTask = "done" => (cancelled /\ UNCHANGED sigVars)
       /\ (cancelled /\ orch = "joining" /\ exitCode = "running")
             => \A w \in Nodes :
                   pc[w] = "select" => ENABLED (Exit(w) /\ pc'[w] = "done")]_vars

\* C19 witness: a worker has left its loop without ever having taken a tick:
\* the token was cancelled by the time it first got to its select!.
C19_Witness ==
    /\ sigTask = "done"
    /\ \E w \in Nodes : pc[w] = "done" /\ ~polled[w]


\* C20: an attempt whose get_secrets call fails or returns no key ends with
\* an error and without a single submission, and the worker is back at its
\* select!, from where it takes its next tick; a submission is in flight
\* only for an attempt that holds at least one key.
C20_NoKeysNoSubmission ==
    \A w \in Nodes :
        /\ outcome[w] \in {"NoKeys", "FetchError"}
              => /\ sent[w] = << >>
                 /\ keys[w] = << >>
                 /\ status[w] = "SEALED"
                 /\ pc[w] = "select"
                 /\ (tickReady[w] /\ exitCode = "running") => ENABLED Tick(w)
        /\ pc[w] = "apply" => (keys[w] # << >> /\ sent[w] # << >>)
        /\ (pc[w] = "select" /\ status[w] = "SEALED" /\ keys[w] = << >>)
              => outcome[w] \in {"NoKeys", "FetchError"}

\* C20 witness: get_secrets has returned an empty list, the attempt is over
\* and the worker's next tick is ready.
C20_Witness ==
    \E w \in Nodes :
        /\ outcome[w] = "NoKeys"
        /\ pc[w] = "select"
        /\ tickReady[w]
        /\ ~cancelled


\* C21, as claimed: an attempt ends with success exactly when one of its
\* submissions was answered with sealed = false, whatever threshold that
\* answer carries. It fails for an answer to one of the first N-1 keys that
\* says sealed = false with a threshold above N: the threshold is looked at
\* first and the attempt ends with "not enough keys".
C21_SuccessIffUnsealed ==
    [][\A w \in Nodes : \A res \in ApplyVals :
          (pc[w] = "apply" /\ ApplyReturn(w, res))
          => (outcome'[w] = "Ok" <=> (res.kind = "ok" /\ ~res.sealed))]_vars

\* C22, as claimed: a configuration that InitCfg has accepted gives the
\* workers a check_interval of at least 1, and no worker fails to create its
\* interval. It fails for check_interval = 0, which try_from passes on as it
\* is and with which tokio::time::interval panics.
C22_IntervalAtLeastOne ==
    /\ orch \in {"joining", "returned", "panicked"} => check_interval >= 1
    /\ \A w \in Nodes : pc[w] # "panicked"

====
